---- MODULE Spec2Model ----
(***************************************************************************)
(* Model of pssh (src/src/main.rs): a watcher that mirrors the INBOX/ tree *)
(* into CLONE/.  The state is the filesystem (inbox and mirror in one      *)
(* map), the FileIndex, the notify channel and the position of the main    *)
(* task.  Paths are sequences of characters, so that the textual           *)
(* operations of the code (find, replace, pop) are computed as the code    *)
(* computes them.                                                          *)
(***************************************************************************)
EXTENDS Integers, Sequences, FiniteSets, TLC

VARIABLES
    fs,         \* the filesystem: path |-> [kind, ver]; an absent path is not in DOMAIN
    index,      \* FileIndex.index: key |-> modification time
    location,   \* FileIndex.location (the watched root as given)
    pendingEv,  \* events the watcher thread has still to send (it blocks in blocking_send)
    queue,      \* the mpsc channel of capacity ChannelCap
    pc,         \* position of the main task
    cur,        \* the event taken by rx.recv() (x), NoEvent when none
    key,        \* k of handle_event / host_file of mirror for the current event
    syncTodo,   \* initial files whose mirror(f, None) future has not completed
    clock,      \* number of environment changes so far (source of mtimes)
    nextSeq,    \* history: sequence number the next sent event gets
    lastSeq,    \* history: sequence number of the last event given to handle_event
    tainted,    \* history: an I/O fault, a rename or a spurious event was injected
    signalled,  \* the ctrl_c() future of the current select! has a signal to deliver
    clean,      \* history: paths whose last processed Create/Modify was stat'ed and unchanged since
    nSpurious,  \* history: number of spurious events injected
    armed,      \* the I/O fault the next copy / delete / mkdir of the program meets
    tr          \* path harness: a file root \o rel seen from cwd, its mirror path and event key

vars == <<fs, index, location, pendingEv, queue, pc, cur, key, syncTodo, clock,
          nextSeq, lastSeq, tainted, signalled, clean, nSpurious, armed, tr>>

----------------------------------------------------------------------------
(* Bounds *)

\* environment changes (file operations and injected events) per behaviour
MaxChanges == 3
\* spurious / stale-by-construction events per behaviour
MaxSpurious == 1
\* chunks composing a path in the path-translation harness
MaxChunks == 2
MaxBurst == 12

(* Program constants *)

\* tokio::sync::mpsc::channel(10)
ChannelCap == 10

DEFAULT_INBOX == <<"I", "N", "B", "O", "X", "/">>
DEFAULT_TARGET == <<"C", "L", "O", "N", "E", "/">>

----------------------------------------------------------------------------
(* Text operations on paths *)

\* pat occurs in s at position i
OccursAt(s, pat, i) ==
    /\ i >= 1
    /\ i + Len(pat) - 1 <= Len(s)
    /\ SubSeq(s, i, i + Len(pat) - 1) = pat

\* a faulty variant of Find: str::rfind, the last occurrence
FindLast(s, pat) ==
    LET hits == {i \in 1..(Len(s) + 1) : OccursAt(s, pat, i)}
    IN  IF hits = {} THEN 0 ELSE CHOOSE i \in hits : \A j \in hits : i >= j

\* str::find: position of the first occurrence, 0 for None
Find(s, pat) ==
    LET hits == {i \in 1..(Len(s) + 1) : OccursAt(s, pat, i)}
    IN  IF hits = {} THEN 0 ELSE CHOOSE i \in hits : \A j \in hits : i <= j

\* str::replace: every non-overlapping occurrence, left to right
RECURSIVE ReplaceFrom(_, _, _, _)
ReplaceFrom(s, from, to, i) ==
    IF i > Len(s) THEN <<>>
    ELSE IF OccursAt(s, from, i) THEN to \o ReplaceFrom(s, from, to, i + Len(from))
    ELSE <<s[i]>> \o ReplaceFrom(s, from, to, i + 1)

Replace(s, from, to) == ReplaceFrom(s, from, to, 1)

host_path_to_target(host) == Replace(host, DEFAULT_INBOX, DEFAULT_TARGET)

\* PathBuf::pop: the path without its last component
PathPop(p) ==
    LET slashes == {i \in 1..Len(p) : p[i] = "/"}
    IN  IF slashes = {} THEN <<>>
        ELSE SubSeq(p, 1, (CHOOSE i \in slashes : \A j \in slashes : j <= i) - 1)

\* the directories create_dir_all(dir) makes exist: dir and its ancestors
DirChain(dir) ==
    {SubSeq(dir, 1, i - 1) : i \in {j \in 2..Len(dir) : dir[j] = "/"}}
        \cup (IF dir = <<>> THEN {} ELSE {dir})

----------------------------------------------------------------------------
(* The filesystem *)

FileEntry(v) == [kind |-> "file", ver |-> v]
DirEntry(v) == [kind |-> "dir", ver |-> v]

Exists(f, p) == p \in DOMAIN f
IsDir(f, p) == p \in DOMAIN f /\ f[p].kind = "dir"
IsFile(f, p) == p \in DOMAIN f /\ f[p].kind = "file"

FsPut(f, p, e) == [x \in (DOMAIN f) \cup {p} |-> IF x = p THEN e ELSE f[x]]
FsDel(f, p) == [x \in (DOMAIN f) \ {p} |-> f[x]]

\* the paths of the inbox the environment acts on
PX == DEFAULT_INBOX \o <<"x">>
PD == DEFAULT_INBOX \o <<"n">>
PY == PD \o <<"/", "y">>
InboxRoot == SubSeq(DEFAULT_INBOX, 1, Len(DEFAULT_INBOX) - 1)

\* the working directory: notify reports absolute paths
Cwd == <<"/", "h", "/">>
NativePath(p) == Cwd \o p

ParentOf(p) == IF p = PY THEN PD ELSE InboxRoot
Children(f, d) == {p \in DOMAIN f : p # d /\ OccursAt(p, d \o <<"/">>, 1)}

----------------------------------------------------------------------------
(* Events *)

NoEvent == [kind |-> "None", sub |-> "Any", paths |-> <<>>, seq |-> 0]
NoTr == [cwd |-> <<>>, root |-> <<>>, rel |-> <<>>, target |-> <<>>, key |-> <<>>, done |-> FALSE]

Ev(kind, sub, p) == [kind |-> kind, sub |-> sub, paths |-> <<NativePath(p)>>, seq |-> 0]

\* events the watch subsystem may deliver that no change of this model's
\* environment produced
\* an event of the watched directory itself: its path ends with the
\* directory's name and so does not contain the root's text "INBOX/"
RootDirEvent == [kind |-> "Modify", sub |-> "Any", paths |-> <<Cwd \o InboxRoot>>, seq |-> 0]

\* an event that lists two paths
TwoPathEvent ==
    [kind |-> "Remove", sub |-> "Any", paths |-> <<NativePath(PX), NativePath(PY)>>, seq |-> 0]

SpuriousEvents ==
    {Ev(k, "Any", PX) : k \in {"Create", "Modify", "Other"}}
        \cup {RootDirEvent, TwoPathEvent}

----------------------------------------------------------------------------
(* OS primitives called by the program *)

\* the I/O call of a mirror operation that fails for a reason of the
\* environment: its first call, the create_dir_all or the second copy
Faults == {"none", "first", "mkdir", "retry"}

\* outcome of fs::copy(from, to): "Ok", "NotFound" or "Other"
CopyResult(f, from, to, fault) ==
    IF ~Exists(f, from) THEN "NotFound"
    ELSE IF ~IsFile(f, from) THEN "Other"
    ELSE IF fault THEN "Other"
    ELSE IF PathPop(to) # <<>> /\ ~IsDir(f, PathPop(to)) THEN "NotFound"
    ELSE IF IsDir(f, to) THEN "Other"
    ELSE "Ok"

DoCopy(f, from, to) == FsPut(f, to, FileEntry(f[from].ver))

\* outcome of fs::create_dir_all(dir)
MkdirResult(f, dir, fault) ==
    IF fault \/ \E d \in DirChain(dir) : IsFile(f, d) THEN "Err" ELSE "Ok"

DoMkdir(f, dir) ==
    [x \in (DOMAIN f) \cup DirChain(dir) |-> IF x \in DOMAIN f THEN f[x] ELSE DirEntry(0)]

\* outcome of fs::remove_file(p)
RemoveResult(f, p) == IF IsFile(f, p) THEN "Ok" ELSE "Err"

----------------------------------------------------------------------------
(* The program *)

\* find_files_in: every non-directory below the root
find_files_in(f, dir) ==
    {p \in DOMAIN f : OccursAt(p, dir, 1) /\ ~IsDir(f, p)}

\* FileIndex::new
FileIndex_new(f, files) == [p \in files |-> f[p].ver]

\* a faulty variant of IndexInsert: an existing entry is kept
IndexInsertKeepOld(idx, k, v) ==
    [x \in (DOMAIN idx) \cup {k} |-> IF x \in DOMAIN idx THEN idx[x] ELSE v]

\* self.index.insert(k, v)
IndexInsert(idx, k, v) ==
    [x \in (DOMAIN idx) \cup {k} |-> IF x = k THEN v ELSE idx[x]]

\* a faulty variant of IndexRemove: the entry stays
IndexRemoveNothing(idx, k) == idx

\* self.index.remove(&k)
IndexRemove(idx, k) == [x \in (DOMAIN idx) \ {k} |-> idx[x]]

\* copy_with_dir(from, to): the filesystem it leaves and whether it panicked
copy_with_dir(f, from, to, fault) ==
    LET r1 == CopyResult(f, from, to, fault = "first")
        f2 == DoMkdir(f, PathPop(to))
    IN  IF r1 = "Ok" THEN [fs |-> DoCopy(f, from, to), panic |-> FALSE]
        ELSE IF r1 = "NotFound" THEN
            IF MkdirResult(f, PathPop(to), fault = "mkdir") = "Err"
            THEN [fs |-> f, panic |-> TRUE]
            ELSE IF CopyResult(f2, from, to, fault = "retry") = "Ok"
                 THEN [fs |-> DoCopy(f2, from, to), panic |-> FALSE]
                 ELSE [fs |-> f2, panic |-> TRUE]
        ELSE [fs |-> f, panic |-> TRUE]

\* the k of handle_event: the text of paths[0] from the first occurrence of
\* the root's text on; <<>> when find returns None
\* a faulty variant of handle_event_head: an event whose path lacks the root
\* is skipped
handle_event_head_skip_foreign(f, ev, k) ==
    IF k = <<>> THEN "none"
    ELSE IF ev.kind = "Create" THEN
        IF ~Exists(f, k) THEN "none"
        ELSE IF ev.sub = "Folder" THEN "none"
        ELSE "stat"
    ELSE IF ev.kind = "Modify" THEN
        IF ~Exists(f, k) \/ IsDir(f, k) THEN "none" ELSE "stat"
    ELSE IF ev.kind = "Remove" THEN
        IF ev.sub = "Folder" THEN "none" ELSE "removed"
    ELSE "none"

\* a faulty variant of EventKey: the last listed path is taken
EventKeyOfLastPath(ev, loc) ==
    LET s == ev.paths[Len(ev.paths)]
        i == Find(s, loc)
    IN  IF i = 0 THEN <<>> ELSE SubSeq(s, i, Len(s))

EventKey(ev, loc) ==
    LET s == ev.paths[1]
        i == Find(s, loc)
    IN  IF i = 0 THEN <<>> ELSE SubSeq(s, i, Len(s))

\* the variables of the path-translation harness aside, the state main starts
\* in: the default root (no -d), the inbox directory present, some files in it,
\* no mirror tree yet
InitMain(files) ==
    /\ fs = [p \in {InboxRoot} \cup files \cup (IF PY \in files THEN {PD} ELSE {})
               |-> IF p \in files THEN FileEntry(0) ELSE DirEntry(0)]
    /\ index = [p \in {} |-> 0]
    /\ location = DEFAULT_INBOX
    /\ pendingEv = <<>>
    /\ queue = <<>>
    /\ pc = "scan"
    /\ cur = NoEvent
    /\ key = <<>>
    /\ syncTodo = {}
    /\ clock = 0
    /\ nextSeq = 1
    /\ lastSeq = 0
    /\ tainted = FALSE
    /\ signalled = FALSE
    /\ clean = {}
    /\ nSpurious = 0
    /\ armed = "none"

Init ==
    /\ \E files \in SUBSET {PX, PY} : InitMain(files)
    /\ tr = NoTr

\* main: find_files_in, FileIndex::new, index.print
ScanAndIndex ==
    /\ pc = "scan"
    /\ LET files == find_files_in(fs, location)
       IN  /\ index' = FileIndex_new(fs, files)
           /\ syncTodo' = files
    /\ pc' = "initial_sync"
    /\ UNCHANGED <<fs, location, pendingEv, queue, cur, key, clock, nextSeq, lastSeq,
                   tainted, signalled, clean, nSpurious, armed, tr>>

\* main: one future of the FuturesUnordered completes, mirror(f, None)
InitialCopy(f) ==
    /\ pc = "initial_sync"
    /\ f \in syncTodo
    /\ LET r == copy_with_dir(fs, f, host_path_to_target(f), armed)
       IN  /\ fs' = r.fs
           /\ pc' = IF r.panic THEN "panicked" ELSE pc
    /\ syncTodo' = syncTodo \ {f}
    /\ armed' = "none"
    /\ UNCHANGED <<index, location, pendingEv, queue, cur, key, clock, nextSeq, lastSeq,
                   tainted, signalled, clean, nSpurious, tr>>

\* a faulty variant of InitialSyncJoined: the futures are not awaited
InitialSyncNotAwaited(todo) == TRUE

\* futures.collect::<Vec<_>>().await returns when every future has completed
InitialSyncJoined(todo) == todo = {}

\* main: every future has completed; the results are looked through for Err
InitialSyncDone ==
    /\ pc = "initial_sync"
    /\ InitialSyncJoined(syncTodo)
    /\ pc' = "watch"
    /\ UNCHANGED <<fs, index, location, pendingEv, queue, cur, key, syncTodo, clock,
                   nextSeq, lastSeq, tainted, signalled, clean, nSpurious, armed, tr>>

\* main: the channel is made and the watcher is started; a failure panics
StartWatch(ok) ==
    /\ pc = "watch"
    /\ pc' = IF ok THEN "select" ELSE "panicked"
    /\ tainted' = (tainted \/ ~ok)
    /\ UNCHANGED <<fs, index, location, pendingEv, queue, cur, key, syncTodo, clock,
                   nextSeq, lastSeq, signalled, clean, nSpurious, armed, tr>>

----------------------------------------------------------------------------
(* The environment: other processes changing the inbox while it is watched, *)
(* the watch subsystem reporting the changes, and I/O faults                *)

Watching == pc \in {"select", "stat", "mirror"}

\* The watcher thread forwards an event as soon as the channel has room, so a
\* change waits behind an unsent event only while the channel is full.
EnvStep(f, ev) ==
    /\ Watching
    /\ clock < MaxChanges
    /\ pendingEv = <<>> \/ Len(queue) >= ChannelCap
    /\ clock' = clock + 1
    /\ fs' = f
    /\ pendingEv' = Append(pendingEv, ev)
    /\ clean' = clean \ {p \in clean : ~Exists(f, p) \/ f[p] # fs[p]}
    /\ UNCHANGED <<index, location, queue, pc, cur, key, syncTodo, nextSeq, lastSeq,
                   signalled, armed, tr>>

\* a file is created: Create(File)
EnvCreate(p) ==
    /\ ~Exists(fs, p) /\ IsDir(fs, ParentOf(p))
    /\ EnvStep(FsPut(fs, p, FileEntry(clock + 1)), Ev("Create", "File", p))
    /\ UNCHANGED <<tainted, nSpurious>>

\* a file is written: Modify
EnvModify(p) ==
    /\ IsFile(fs, p)
    /\ EnvStep(FsPut(fs, p, FileEntry(clock + 1)), Ev("Modify", "Any", p))
    /\ UNCHANGED <<tainted, nSpurious>>

\* a file is deleted: Remove(File)
EnvDelete(p) ==
    /\ IsFile(fs, p)
    /\ EnvStep(FsDel(fs, p), Ev("Remove", "File", p))
    /\ UNCHANGED <<tainted, nSpurious>>

\* a directory is created: Create(Folder)
EnvMkdir(d) ==
    /\ ~Exists(fs, d)
    /\ EnvStep(FsPut(fs, d, DirEntry(0)), Ev("Create", "Folder", d))
    /\ UNCHANGED <<tainted, nSpurious>>

\* an empty directory is deleted: Remove(Folder)
EnvRmdir(d) ==
    /\ IsDir(fs, d) /\ Children(fs, d) = {}
    /\ EnvStep(FsDel(fs, d), Ev("Remove", "Folder", d))
    /\ UNCHANGED <<tainted, nSpurious>>

\* a file is renamed into the inbox: the watch subsystem reports Modify(Name)
EnvMoveIn(p) ==
    /\ ~Exists(fs, p) /\ IsDir(fs, ParentOf(p))
    /\ EnvStep(FsPut(fs, p, FileEntry(clock + 1)), Ev("Modify", "Any", p))
    /\ tainted' = TRUE
    /\ UNCHANGED nSpurious

\* an event no change of the inbox accounts for
Spurious(ev) ==
    /\ nSpurious < MaxSpurious
    /\ nSpurious' = nSpurious + 1
    /\ EnvStep(fs, ev)
    /\ tainted' = TRUE

\* the next I/O call of the program is going to fail (permissions, disk, ...)
ArmFault(fault) ==
    /\ pc \in {"initial_sync", "mirror"}
    /\ pc = "initial_sync" => syncTodo # {}
    /\ armed = "none"
    /\ fault # "none"
    /\ fault # "first" =>
         \E from \in (IF pc = "initial_sync" THEN syncTodo
                       ELSE IF cur.kind = "Create" THEN {key} ELSE {}) :
            CopyResult(fs, from, host_path_to_target(from), FALSE) = "NotFound"
    /\ armed' = fault
    /\ tainted' = TRUE
    /\ UNCHANGED <<fs, index, location, pendingEv, queue, pc, cur, key, syncTodo, clock,
                   nextSeq, lastSeq, signalled, clean, nSpurious, tr>>

\* tx.blocking_send(event) in the watcher's callback
\* a faulty variant of ChannelHasRoom: an unbounded channel
ChannelUnbounded(q) == TRUE

\* blocking_send returns only once the channel has a free slot
ChannelHasRoom(q) == Len(q) < ChannelCap

Send ==
    /\ pendingEv # <<>>
    /\ ChannelHasRoom(queue)
    /\ queue' = Append(queue, [Head(pendingEv) EXCEPT !.seq = nextSeq])
    /\ pendingEv' = Tail(pendingEv)
    /\ nextSeq' = nextSeq + 1
    /\ UNCHANGED <<fs, index, location, pc, cur, key, syncTodo, clock, lastSeq, tainted,
                   signalled, clean, nSpurious, armed, tr>>

\* ctrl-c.  signal::ctrl_c() is called anew in every select! and its future
\* completes on a ctrl-c received after its first poll: a signal that arrives
\* at select! is delivered to the pending future; one that arrives while
\* handle_event or mirror is awaited finds no future and is either seen by
\* the next one (the runtime broadcasts it after that one has registered) or
\* lost, which is no step at all.  When the recv branch of select! wins, the
\* ctrl_c future is dropped with the signal it had (handle_event_begin).
Signal ==
    /\ Watching
    /\ ~signalled
    /\ signalled' = TRUE
    /\ UNCHANGED <<fs, index, location, pendingEv, queue, pc, cur, key, syncTodo, clock,
                   nextSeq, lastSeq, tainted, clean, nSpurious, armed, tr>>

----------------------------------------------------------------------------
(* The consumer loop of main *)

\* a faulty variant of LoopAtSelect: the next event is taken while a mirror is pending
LoopAtSelectPipelined == pc \in {"select", "mirror"}

\* the loop is at select!, no handle_event or mirror future is pending
LoopAtSelect == pc = "select"

\* a faulty variant of RecvItem: the newest event is taken
RecvItemNewest(q) == q[Len(q)]

\* rx.recv(): the oldest event of the channel
RecvItem(q) == Head(q)

\* a faulty variant of RemoveFails: the Option of HashMap::remove is unwrapped
RemoveFailsWhenAbsent(idx, k) == k \notin DOMAIN idx

\* self.index.remove(&k); the Option it returns is dropped, so the removal of
\* an absent key is no failure
RemoveFails(idx, k) == FALSE

\* a faulty variant of handle_event_head: the sub-kind of Remove is not looked at
handle_event_head_no_folder_test(f, ev, k) ==
    IF k = <<>> THEN "panic"
    ELSE IF ev.kind = "Create" THEN
        IF ~Exists(f, k) THEN "none"
        ELSE IF ev.sub = "Folder" THEN "none"
        ELSE "stat"
    ELSE IF ev.kind = "Modify" THEN
        IF ~Exists(f, k) \/ IsDir(f, k) THEN "none" ELSE "stat"
    ELSE IF ev.kind = "Remove" THEN "removed"
    ELSE "none"

\* what the synchronous head of handle_event decides for event ev with key k:
\* "panic" (find found nothing), "none" (return None), "stat" (go on to
\* fs::metadata) or "removed" (the Remove arm)
handle_event_head(f, ev, k) ==
    IF k = <<>> THEN "panic"
    ELSE IF ev.kind = "Create" THEN
        IF ~Exists(f, k) THEN "none"
        ELSE IF ev.sub = "Folder" THEN "none"
        ELSE "stat"
    ELSE IF ev.kind = "Modify" THEN
        IF ~Exists(f, k) \/ IsDir(f, k) THEN "none" ELSE "stat"
    ELSE IF ev.kind = "Remove" THEN
        IF ev.sub = "Folder" THEN "none" ELSE "removed"
    ELSE "none"

\* select!: rx.recv() yields an event; handle_event runs up to its first await
handle_event_begin ==
    /\ LoopAtSelect
    /\ queue # <<>>
    /\ LET ev == RecvItem(queue)
           k == EventKey(ev, location)
           h == handle_event_head(fs, ev, k)
       IN  /\ cur' = ev
           /\ key' = k
           /\ lastSeq' = ev.seq
           /\ pc' = CASE h = "panic" -> "panicked"
                      [] h = "none" -> "select"
                      [] h = "stat" -> "stat"
                      [] h = "removed" ->
                            IF RemoveFails(index, k) THEN "panicked" ELSE "mirror"
           /\ index' = IF h = "removed" THEN IndexRemove(index, k) ELSE index
           /\ clean' = IF h = "removed" THEN clean \ {k} ELSE clean
    /\ queue' = Tail(queue)
    /\ signalled' = FALSE
    /\ UNCHANGED <<fs, location, pendingEv, syncTodo, clock, nextSeq, tainted,
                   nSpurious, armed, tr>>

\* handle_event: fs::metadata(&k).await.unwrap(), md.modified(), index.insert
handle_event_stat ==
    /\ pc = "stat"
    /\ IF Exists(fs, key)
       THEN /\ index' = IndexInsert(index, key, fs[key].ver)
            /\ clean' = clean \cup {key}
            /\ pc' = "mirror"
       ELSE /\ pc' = "panicked"
            /\ UNCHANGED <<index, clean>>
    /\ UNCHANGED <<fs, location, pendingEv, queue, cur, key, syncTodo, clock, nextSeq,
                   lastSeq, tainted, signalled, nSpurious, armed, tr>>

\* mirror(host_file, Some(event)): the filesystem it leaves and how it ends:
\* "ok", "err" (an Err is returned and logged by main) or "panic"
mirror(f, host_file, ev, fault) ==
    LET target_file == host_path_to_target(host_file)
    IN  IF ev.kind = "Create" THEN
            LET r == copy_with_dir(f, host_file, target_file, fault)
            IN  [fs |-> r.fs, end |-> IF r.panic THEN "panic" ELSE "ok"]
        ELSE IF ev.kind = "Modify" THEN
            IF IsFile(f, host_file)
            THEN IF CopyResult(f, host_file, target_file, fault # "none") = "Ok"
                 THEN [fs |-> DoCopy(f, host_file, target_file), end |-> "ok"]
                 ELSE [fs |-> f, end |-> "err"]
            ELSE [fs |-> f, end |-> "ok"]
        ELSE IF ev.kind = "Remove" THEN
            IF RemoveResult(f, target_file) = "Ok" /\ fault = "none"
            THEN [fs |-> FsDel(f, target_file), end |-> "ok"]
            ELSE [fs |-> f, end |-> "err"]
        ELSE [fs |-> f, end |-> "panic"]

\* main: mirror(&p, Some(&x)).await and the match on its result
mirror_event ==
    /\ pc = "mirror"
    /\ LET r == mirror(fs, key, cur, armed)
       IN  /\ fs' = r.fs
           /\ pc' = IF r.end = "panic" THEN "panicked" ELSE "select"
    /\ armed' = "none"
    /\ UNCHANGED <<index, location, pendingEv, queue, cur, key, syncTodo, clock, nextSeq,
                   lastSeq, tainted, signalled, clean, nSpurious, tr>>

\* select!: signal::ctrl_c() completes, the loop breaks and the index is printed
Break ==
    /\ pc = "select"
    /\ signalled
    /\ pc' = "done"
    /\ UNCHANGED <<fs, index, location, pendingEv, queue, cur, key, syncTodo, clock,
                   nextSeq, lastSeq, tainted, signalled, clean, nSpurious, armed, tr>>

----------------------------------------------------------------------------

Next ==
    \/ ScanAndIndex
    \/ \E f \in {PX, PY} : InitialCopy(f)
    \/ InitialSyncDone
    \/ \E ok \in BOOLEAN : StartWatch(ok)
    \/ \E p \in {PX, PY} : EnvCreate(p)
    \/ \E p \in {PX, PY} : EnvModify(p)
    \/ \E p \in {PX, PY} : EnvDelete(p)
    \/ \E d \in {PX, PD} : EnvMkdir(d)
    \/ \E d \in {PX, PD} : EnvRmdir(d)
    \/ \E p \in {PX, PY} : EnvMoveIn(p)
    \/ \E ev \in SpuriousEvents : Spurious(ev)
    \/ \E fault \in Faults : ArmFault(fault)
    \/ Send
    \/ Signal
    \/ handle_event_begin
    \/ handle_event_stat
    \/ mirror_event
    \/ Break

Spec == Init /\ [][Next]_vars

----------------------------------------------------------------------------
(* Path translation on its own: host_path_to_target applied to root \o rel *)

Chunks == {DEFAULT_INBOX, InboxRoot, <<"I">>, <<"a", "/">>, <<"b">>, <<"W", "/">>}
Roots == {DEFAULT_INBOX, <<"W", "/">>}
\* working directories of the process: the native path of a file is the
\* working directory followed by the path the scan gives it
Cwds == {Cwd} \cup {<<"/">> \o R : R \in Roots}

RECURSIVE RelPaths(_)
RelPaths(n) ==
    IF n = 0 THEN {<<>>}
    ELSE LET shorter == RelPaths(n - 1)
         IN  shorter \cup {r \o c : r \in shorter, c \in Chunks}

InitPath ==
    /\ InitMain({})
    /\ \E R \in Roots, r \in RelPaths(MaxChunks) \ {<<>>}, c \in Cwds :
         tr = [cwd |-> c, root |-> R, rel |-> r, target |-> <<>>, key |-> <<>>,
               done |-> FALSE]

Translate ==
    /\ ~tr.done
    /\ tr' = [tr EXCEPT !.target = host_path_to_target(tr.root \o tr.rel),
                         !.key = EventKey([NoEvent EXCEPT
                                             !.paths = <<tr.cwd \o tr.root \o tr.rel>>],
                                          tr.root),
                         !.done = TRUE]
    /\ UNCHANGED <<fs, index, location, pendingEv, queue, pc, cur, key, syncTodo, clock,
                   nextSeq, lastSeq, tainted, signalled, clean, nSpurious, armed>>

NextPath == Translate

SpecPath == InitPath /\ [][NextPath]_vars

----------------------------------------------------------------------------
(* Properties *)

InboxFiles == {p \in DOMAIN fs : OccursAt(p, DEFAULT_INBOX, 1) /\ IsFile(fs, p)}
MirrorFiles == {p \in DOMAIN fs : OccursAt(p, DEFAULT_TARGET, 1) /\ IsFile(fs, p)}

\* the mirror path a file of the inbox is meant to have: mirror root + remainder
MirrorPathOf(p) == DEFAULT_TARGET \o SubSeq(p, Len(DEFAULT_INBOX) + 1, Len(p))

MirrorConsistent ==
    /\ MirrorFiles = {MirrorPathOf(p) : p \in InboxFiles}
    /\ \A p \in InboxFiles : fs[MirrorPathOf(p)].ver = fs[p].ver

Consistent == DOMAIN index = InboxFiles /\ MirrorConsistent

\* every change so far was notified and its notification processed
Drained == pendingEv = <<>> /\ queue = <<>> /\ pc = "select"

\* C1: after creations, modifications and deletions of files, each notified
\* by its own event and with no I/O fault, once the queue has drained the
\* index holds exactly the files of the inbox and the mirror holds a copy of
\* exactly those files; and the process never ends by itself leaving the
\* mirror tree different from the inbox.
C1_EventuallyConsistent ==
    ~tainted => /\ Drained => Consistent
                /\ pc = "panicked" => MirrorConsistent

\* what does hold: the states in which the queue has drained are consistent
DrainedConsistent == (~tainted /\ Drained) => Consistent

\* C2: the events given to handle_event followed by the events waiting in the
\* channel are the events sent, each once, in the order they were sent.
C2_FifoExactlyOnce ==
    /\ nextSeq = lastSeq + Len(queue) + 1
    /\ \A i \in 1..Len(queue) : queue[i].seq = lastSeq + i

C2_Witness == lastSeq >= 2 /\ Len(queue) >= 1 /\ cur.kind = "Modify"

\* C3: an event is taken from the channel only while the loop waits in
\* select!, that is when the reconcile step and the mirror operation of the
\* event before it have both completed; the index is changed only by the one
\* event being reconciled.
C3_NotPipelined ==
    [][/\ lastSeq' # lastSeq => (pc = "select" /\ lastSeq' = lastSeq + 1)
       /\ (Watching /\ index' # index) =>
             (pc \in {"select", "stat"} /\ \A k \in DOMAIN index' \ {key'} :
                  k \in DOMAIN index /\ index'[k] = index[k])]_vars

C3_Witness == pc = "mirror" /\ Len(queue) >= 1 /\ lastSeq >= 1

\* the event a step of the consumer works on, and its key
StepEvent == IF pc = "select" THEN RecvItem(queue) ELSE cur
StepKey == IF pc = "select" THEN EventKey(RecvItem(queue), location) ELSE key
ConsumerStep == Watching /\ (lastSeq' # lastSeq \/ (pc' # pc /\ pc' # "done"))

\* C4: a step of the consumer on a Create or Modify event whose path does
\* not exist at that moment changes neither the index nor the filesystem
\* (no mirror operation) and does not end the process: the loop goes on.
C4_VanishedPathIsNoOp ==
    [][(ConsumerStep /\ StepEvent.kind \in {"Create", "Modify"} /\ ~Exists(fs, StepKey))
         => (pc' = "select" /\ index' = index /\ fs' = fs)]_vars

\* C5: no mirror operation of the consumer loop ends the process: after the
\* mirror step the loop is back at select!, whatever the operation met.
C5_MirrorFailureNeverFatal == [][pc = "mirror" => pc' # "panicked"]_vars

\* C6: a failing copy of the initial sync does not end the process: the
\* remaining files are still copied and the watch is started.
C6_InitialCopyFailureNotFatal == [][pc = "initial_sync" => pc' # "panicked"]_vars

\* C7: when the copy of an Added or Modified file fails because the parent
\* directory of the destination is missing (and nothing else is wrong), the
\* mirror step leaves the file copied at its mirror path.
C7_MissingParentRetried ==
    [][(/\ pc = "mirror" /\ pc' # pc /\ armed = "none"
        /\ cur.kind \in {"Create", "Modify"}
        /\ IsFile(fs, key)
        /\ ~IsDir(fs, PathPop(MirrorPathOf(key)))
        /\ MkdirResult(fs, PathPop(MirrorPathOf(key)), FALSE) = "Ok")
         => (/\ IsFile(fs', MirrorPathOf(key))
             /\ fs'[MirrorPathOf(key)].ver = fs[key].ver
             /\ pc' = "select")]_vars

\* C8: the mirror path of root \o rel is the mirror root followed by rel.
C8_PrefixSubstituted == tr.done => tr.target = DEFAULT_TARGET \o tr.rel

\* C9: whenever an entry is put into the index, by the initial scan or by
\* handle_event, its path is not a directory at that moment.
C9_NoDirectoryIndexed ==
    [][/\ (pc = "scan" /\ pc' # pc) => \A k \in DOMAIN index' : ~IsDir(fs, k)
       /\ (pc = "stat" /\ pc' = "mirror") => ~IsDir(fs, key)]_vars

\* C10: a path whose last Create/Modify event was processed while it existed,
\* and which has not changed since, has an index entry equal to its
\* modification time: the entry of an earlier event is overwritten.
C10_IndexHoldsLastMtime ==
    \A p \in clean : p \in DOMAIN index /\ Exists(fs, p) /\ index[p] = fs[p].ver

\* two changes, both of INBOX/x, the second a write; both events processed
C10_Witness ==
    /\ ~tainted /\ clock = 2 /\ DOMAIN fs \cap {PD, PY} = {}
    /\ PX \in clean /\ IsFile(fs, PX) /\ index[PX] = 2
    /\ cur.kind = "Modify" /\ key = PX /\ lastSeq = 2 /\ pc = "mirror"

----------------------------------------------------------------------------
(* A burst of notifications: one file of the inbox is written MaxBurst times *)
(* while the consumer is slow, so that the channel fills.                    *)

InitBurst == InitMain({PX}) /\ tr = NoTr

\* the file is written again; the watcher thread gets a Modify event for it
Burst ==
    /\ Watching
    /\ clock < MaxBurst
    /\ IsFile(fs, PX)
    /\ pendingEv = <<>> \/ ~ChannelHasRoom(queue)
    /\ clock' = clock + 1
    /\ fs' = FsPut(fs, PX, FileEntry(clock + 1))
    /\ pendingEv' = Append(pendingEv, Ev("Modify", "Any", PX))
    /\ clean' = clean \ {PX}
    /\ UNCHANGED <<index, location, queue, pc, cur, key, syncTodo, nextSeq, lastSeq,
                   tainted, signalled, nSpurious, armed, tr>>

NextBurst ==
    \/ ScanAndIndex
    \/ \E f \in {PX} : InitialCopy(f)
    \/ InitialSyncDone
    \/ \E ok \in BOOLEAN : StartWatch(ok)
    \/ Burst
    \/ Send
    \/ handle_event_begin
    \/ handle_event_stat
    \/ mirror_event

SpecBurst == InitBurst /\ [][NextBurst]_vars

\* C11: when a Remove event that is not of sub-kind Folder is processed, the
\* reconcile step leaves the index without the path and emits Removed (the
\* mirror step follows), and the mirror step, met by no I/O fault, leaves no
\* file at the mirror path and returns to select!, whether or not the path
\* was in the index or in the mirror before.
C11_RemoveClearsIndexAndMirror ==
    [][/\ (pc = "select" /\ lastSeq' # lastSeq /\ cur'.kind = "Remove" /\ cur'.sub # "Folder"
           /\ key' # <<>>)
            => (pc' = "mirror" /\ key' \notin DOMAIN index')
       /\ (pc = "mirror" /\ pc' # pc /\ cur.kind = "Remove" /\ armed = "none")
            => (/\ pc' = "select"
                /\ key \notin DOMAIN index'
                /\ ~Exists(fs', MirrorPathOf(key)))]_vars

\* a Remove was processed whose path was neither indexed nor mirrored
C11_Witness ==
    /\ pc = "select" /\ cur.kind = "Remove" /\ cur.sub # "Folder" /\ key = PX
    /\ key \notin DOMAIN index /\ ~Exists(fs, MirrorPathOf(key))
    /\ lastSeq = 1 /\ IsFile(fs, MirrorPathOf(PY))

\* C12: the reconcile step of a Remove event whose path is not in the index
\* does not fail and leaves the index as it is; hence a second Remove of the
\* same path leaves the index the first one left.
C12_RemoveIdempotent ==
    [][(pc = "select" /\ lastSeq' # lastSeq /\ cur'.kind = "Remove" /\ key' # <<>>
        /\ key' \notin DOMAIN index)
         => (index' = index /\ pc' # "panicked")]_vars

\* the second of two Remove events of one path has been reconciled
C12_Witness ==
    /\ cur.kind = "Remove" /\ cur.sub # "Folder" /\ lastSeq = 2 /\ pc = "mirror"
    /\ key = PX /\ key \notin DOMAIN index /\ nSpurious = 1 /\ clock = 2
    /\ ~Exists(fs, PX)

\* C13: the reconcile step of a Create or Remove event of sub-kind Folder, or
\* of an event of kind Other, changes neither the index nor the filesystem
\* and yields no change: the loop is back at select! with no mirror step.
C13_IgnoredEventsNoEffect ==
    [][(/\ pc = "select" /\ lastSeq' # lastSeq /\ key' # <<>>
        /\ \/ cur'.kind \in {"Create", "Remove"} /\ cur'.sub = "Folder"
           \/ cur'.kind = "Other")
         => (index' = index /\ fs' = fs /\ pc' = "select")]_vars

\* a Remove(Folder) was ignored while a file was indexed and mirrored
C13_Witness ==
    /\ cur.kind = "Remove" /\ cur.sub = "Folder" /\ pc = "select" /\ lastSeq >= 1
    /\ DOMAIN index # {} /\ MirrorFiles # {}

\* C14: a termination signal that has fired ends the loop: it stays in
\* effect, whatever the loop does meanwhile, until the loop breaks (and the
\* final snapshot is printed).
C14_SignalEndsLoop ==
    [][(signalled /\ pc' # "done") => signalled']_vars

\* C15: the channel never holds more than ChannelCap events, and none is lost
\* for that: every change of the burst has its event either delivered, in the
\* channel, or still held by the blocked producer, each once and in order.
C15_QueueBoundedNoLoss ==
    /\ Len(queue) <= ChannelCap
    /\ (nextSeq - 1) + Len(pendingEv) = clock
    /\ \A i \in 1..Len(queue) : queue[i].seq = lastSeq + i
    /\ lastSeq + Len(queue) = nextSeq - 1

\* the channel is full, the producer is blocked with an event in hand, and
\* the consumer has already taken events
C15_Witness ==
    /\ Len(queue) = ChannelCap /\ pendingEv # <<>> /\ lastSeq >= 1

\* C16: the reconcile step of an event whose first path does not contain the
\* text of the watched root always ends the process, with the index and the
\* filesystem as they were; the ended process does nothing more.
C16_ForeignPathFatal ==
    [][/\ (pc = "select" /\ lastSeq' # lastSeq /\ Find(cur'.paths[1], location) = 0)
            => (pc' = "panicked" /\ index' = index /\ fs' = fs)
       /\ pc = "panicked" => (pc' = "panicked" /\ index' = index /\ fs' = fs)]_vars

\* the process ended on an event of the watched directory itself while a
\* file was indexed
C16_Witness ==
    /\ pc = "panicked" /\ cur.kind # "None" /\ Find(cur.paths[1], location) = 0
    /\ DOMAIN index # {} /\ armed = "none"

\* the key of the first listed path of an event
FirstPathKey(ev) ==
    LET s == ev.paths[1]
        i == Find(s, location)
    IN  SubSeq(s, i, Len(s))

\* C17: processing one event changes no index entry but that of the event's
\* first listed path and leads to at most one mirror operation, which is on
\* the mirror path of that first path: no other file of the mirror changes,
\* and the loop is back at select! (or ended) after it.
C17_OnlyFirstPath ==
    [][/\ (Watching /\ index' # index)
            => \A k \in (DOMAIN index \cup DOMAIN index') \ {FirstPathKey(StepEvent)} :
                    k \in DOMAIN index /\ k \in DOMAIN index' /\ index'[k] = index[k]
       /\ (pc' = "mirror" /\ pc # "mirror") => key' = FirstPathKey(cur')
       /\ (pc = "mirror" /\ pc' # pc)
            => /\ pc' \in {"select", "panicked"}
               /\ key' = key
               /\ \A m \in MirrorFiles :
                    (m # host_path_to_target(key)) => (Exists(fs', m) /\ fs'[m] = fs[m])
               /\ \A m \in DOMAIN fs' :
                    (m \notin DOMAIN fs /\ IsFile(fs', m)) => m = host_path_to_target(key)]_vars

\* a Remove event listing two indexed files was processed: the entry of the
\* second file and its mirror file are still there
C17_Witness ==
    /\ cur = [TwoPathEvent EXCEPT !.seq = cur.seq] /\ pc = "select" /\ lastSeq = 1
    /\ PX \notin DOMAIN index /\ PY \in DOMAIN index
    /\ ~Exists(fs, MirrorPathOf(PX)) /\ IsFile(fs, MirrorPathOf(PY))

\* C18: the watch subsystem is started only when the index has been built
\* from the scan and every initial copy has completed; until it is started no
\* notification exists or is reconciled and the index is that of the scan;
\* afterwards the index changes in reconcile steps only.
C18_StartupOrder ==
    [][/\ (pc' \in {"watch", "select", "stat", "mirror", "done"}) => syncTodo' = {}
       /\ (pc' \in {"scan", "initial_sync", "watch"})
            => (queue' = <<>> /\ pendingEv' = <<>> /\ lastSeq' = 0 /\ cur' = NoEvent)
       /\ (pc' \in {"initial_sync", "watch"})
            => index' = FileIndex_new(fs', find_files_in(fs', location'))
       /\ (pc # "scan" /\ index' # index)
            => (pc \in {"select", "stat"} /\ lastSeq' >= 1)]_vars

\* the loop is about to take its first notification: both files of the inbox
\* are indexed and mirrored
C18_Witness ==
    /\ pc = "select" /\ lastSeq = 0 /\ queue # <<>> /\ syncTodo = {}
    /\ DOMAIN index = {PX, PY}
    /\ IsFile(fs, MirrorPathOf(PX)) /\ IsFile(fs, MirrorPathOf(PY))

\* C19: for every watched root, the mirror path of a file of the inbox is
\* another path than the file's own and does not lie under the watched root.
C19_TargetOutsideInbox ==
    tr.done => (tr.target # tr.root \o tr.rel /\ ~OccursAt(tr.target, tr.root, 1))

\* C20 as stated: the key handle_event derives from the native path of a file
\* is the key the initial scan gave the file.
C20_EventKeyIsScanKey == tr.done => tr.key = tr.root \o tr.rel

\* C20 as amended: the key handle_event derives from the native path of a file
\* is the key the initial scan gave the file, provided the text of the root
\* does not occur in the native path before the watched root itself (no
\* occurrence begins in the working-directory part).
C20_EventKeyIsScanKeyWhenRootFirst ==
    (tr.done /\ \A i \in 1..Len(tr.cwd) : ~OccursAt(tr.cwd \o tr.root, tr.root, i))
        => tr.key = tr.root \o tr.rel

\* the key of a file was derived whose path holds the root's text twice
C20_Witness ==
    /\ tr.done /\ tr.cwd = Cwd /\ tr.root = <<"W", "/">>
    /\ tr.rel = <<"a", "/">> \o tr.root
    /\ tr.key = tr.root \o tr.rel

====
